---- MODULE Spec2Model ----
(***************************************************************************)
(* KeyManagementServiceGrpcTransport: the gRPC transport facade of the     *)
(* Cloud KMS client (transports/grpc.py).  One facade instance is          *)
(* constructed from keyword arguments and then used: its grpc_channel       *)
(* property is read and its 23 stub accessors are accessed.  Spec and      *)
(* SpecAccessors use the facade from one thread, one whole call at a time; *)
(* SpecThreads uses it from several threads, one statement at a time.      *)
(*                                                                         *)
(* Python values are tagged records.  Strings that the code inspects       *)
(* (hosts, endpoints, operation names, method names) are sequences of      *)
(* tokens, so that "':' in s", "s + ':443'" and the snake_case/CamelCase   *)
(* correspondence are computed and not assumed.  An object's attributes    *)
(* are a function whose DOMAIN is the set of attributes that are set, so   *)
(* hasattr(self, a) is  a \in DOMAIN self.                                 *)
(***************************************************************************)
EXTENDS Naturals, Sequences, FiniteSets

VARIABLES
    pc,         \* "new" (before __init__), "ready" (facade returned), "raised" (__init__ raised)
    kwargs,     \* the keyword arguments of the constructor call (DOMAIN = those supplied)
    self,       \* the instance attributes that are set
    calls,      \* how often each collaborator has been called
    superArgs,  \* the arguments the base constructor was called with, <<>> before
    uuCalls,    \* per accessor, how often it has invoked channel.unary_unary
    seen,       \* the channel objects grpc_channel has returned so far
    done,       \* per accessor that has returned, the first and the last value it returned
    errs,       \* per operation that has raised, the last exception it raised to its caller
    threw,      \* the collaborators that have raised
    failures,   \* how many collaborator calls have raised after construction
    threads,    \* per thread of SpecThreads, where it is in an accessor and its locals
    started,    \* how many accessor calls the threads of SpecThreads have started
    rpc,        \* the calls the user has made of the callables the accessors returned
    script      \* the run of a sample script: its environment, position, locals, output

vars ==
    <<pc, kwargs, self, calls, superArgs, uuCalls, seen, done, errs, threw, failures,
      threads, started, rpc, script>>

----------------------------------------------------------------------------
(* Bounds of the model. *)

\* at most this many distinct accessors are touched in one run of Spec
MaxOps == 2

\* at most this many distinct accessors are touched in one run of SpecAccessors
MaxAccessors == 1

\* at most this many collaborator calls raise after construction
MaxFailures == 1

\* the threads that use one facade in a run of SpecThreads
NumThreads == 2

\* at most this many accessor calls are made in a run of SpecThreads
MaxCalls == 3

\* at most this many calls of returned callables are made in a run of SpecCalls
MaxRpcs == 2

\* a server holds at most this many key rings in a run of SpecSamples
MaxKeyRings == 3

----------------------------------------------------------------------------
(* Python values. *)

None == [t |-> "None"]

False == [t |-> "bool", b |-> FALSE]

Str(s) == [t |-> "str", s |-> s]

Absent == [t |-> "absent"]

\* bool(v) as Python computes it for the values that occur
Truthy(v) ==
    CASE v.t = "None" -> FALSE
      [] v.t = "bool" -> v.b
      [] v.t = "str"  -> Len(v.s) > 0
      [] OTHER        -> TRUE

\* ":" in s
HasColon(v) == \E i \in DOMAIN v.s : v.s[i] = ":"

\* s + ":443"
Plus443(v) == Str(v.s \o <<":", "443">>)

\* o.a = v
SetAttr(o, a, v) == [x \in DOMAIN o \cup {a} |-> IF x = a THEN v ELSE o[x]]

\* d[k] = v
SetItem(d, k, v) == [x \in DOMAIN d \cup {k} |-> IF x = k THEN v ELSE d[x]]

\* one more call of collaborator c
Called(cs, c) == [cs EXCEPT ![c] = @ + 1]

----------------------------------------------------------------------------
(* The constructor's parameters and the arguments the model draws. *)

DefaultHost == Str(<<"cloudkms.googleapis.com">>)

ParamNames == {"host", "credentials", "channel", "api_mtls_endpoint", "client_cert_source"}

\* variant: the host parameter has no default
ParamDefaultNone(p) == None

ParamDefault(p) == IF p = "host" THEN DefaultHost ELSE None

\* the value parameter p has in the call
Param(kw, p) == IF p \in DOMAIN kw THEN kw[p] ELSE ParamDefault(p)

UserCredentials == [t |-> "Credentials", from |-> "argument"]

DefaultCredentials == [t |-> "Credentials", from |-> "auth.default"]

UserChannel == [t |-> "Channel", from |-> "argument"]

CertSource == [t |-> "callable", name |-> "client_cert_source"]

HostChoices == {Absent, Str(<<"kms.example.test", ":", "8443">>)}

CredentialsChoices == {Absent, UserCredentials}

ChannelChoices == {Absent, UserChannel}

EndpointChoices ==
    {Absent, Str(<<>>), Str(<<"kms.mtls.example.test">>),
     Str(<<"kms.mtls.example.test", ":", "8443">>)}

CertSourceChoices == {Absent, CertSource}

MkKwargs(h, c, ch, ep, cs) ==
    LET full == [host |-> h, credentials |-> c, channel |-> ch,
                 api_mtls_endpoint |-> ep, client_cert_source |-> cs]
    IN  [p \in {q \in ParamNames : full[q].t # "absent"} |-> full[p]]

CallNames ==
    {"auth.default", "client_cert_source", "grpc.ssl_channel_credentials",
     "SslCredentials", "grpc_helpers.create_channel", "create_channel",
     "super().__init__"}

ZeroCalls == [c \in CallNames |-> 0]

IsNone(v) == v.t = "None"

----------------------------------------------------------------------------
(* The collaborators.  Each returns a fresh value that records how it was  *)
(* obtained; whether a call returns or raises is the environment's choice. *)

AUTH_SCOPES == "AUTH_SCOPES"

\* the exception raised by collaborator c
Raised(c) == [t |-> "Exception", by |-> c]

\* grpc.ssl_channel_credentials(certificate_chain=cert, private_key=key)
SslChannelCredentials == [t |-> "ChannelCredentials", from |-> "client_cert_source"]

\* SslCredentials().ssl_credentials
DefaultSslCredentials == [t |-> "ChannelCredentials", from |-> "SslCredentials"]

\* grpc_helpers.create_channel(host, credentials=..., ssl_credentials=..., scopes=...):
\* the n-th channel created for this facade
NewChannel(host, credentials, ssl_credentials, n) ==
    [t |-> "Channel", from |-> "grpc_helpers.create_channel", host |-> host,
     credentials |-> credentials, ssl_credentials |-> ssl_credentials,
     scopes |-> AUTH_SCOPES, n |-> n]

\* the outcomes of the collaborator calls of one constructor call
Envs ==
    [auth_default : BOOLEAN, client_cert_source : BOOLEAN,
     SslCredentials : BOOLEAN, create_channel : BOOLEAN]

----------------------------------------------------------------------------
(* __init__ *)

\* the base constructor: it keeps the host and the credentials it is given
BaseInit(o, host, credentials) ==
    SetAttr(SetAttr(o, "_host", host), "_credentials", credentials)

\* variant: exceptions of collaborators are caught and construction goes on
Swallowed(raised) == FALSE

\* an exception raised by a collaborator is caught nowhere: it ends the call
Propagates(raised) == raised

\* elif api_mtls_endpoint:
MtlsRequested(kw) == Truthy(Param(kw, "api_mtls_endpoint"))

\* variant: the mutual-TLS endpoint takes precedence over a supplied channel
ChannelSuppliedUnlessMtls(kw) == Truthy(Param(kw, "channel")) /\ ~MtlsRequested(kw)

\* if channel:
ChannelSupplied(kw) == Truthy(Param(kw, "channel"))

\* variant: the port is appended to every endpoint
MtlsHostAlways443(ep) == Plus443(ep)

\* host = api_mtls_endpoint if ":" in api_mtls_endpoint else api_mtls_endpoint + ":443"
MtlsHost(ep) == IF HasColon(ep) THEN ep ELSE Plus443(ep)

\* variant: the credentials are left as given in the channel branch
ChannelBranchCredentialsKept(credentials) == credentials

\* credentials = False, in the channel branch
ChannelBranchCredentials(credentials) == False

\* variant: the callback is called whether or not one was given
UseCertSourceAlways(source) == TRUE

\* if client_cert_source:
UseCertSource(source) == Truthy(source)

\* the constructor raises e: the attributes set so far stay on the object
InitRaise(o, cs, e, th) ==
    [exc |-> e, self |-> o, calls |-> cs, super |-> <<>>, threw |-> th]

\* super().__init__(host=host, credentials=credentials); self._stubs = {}
InitFinish(o, cs, host, credentials, th) ==
    [exc   |-> None,
     self  |-> SetAttr(BaseInit(o, host, credentials), "_stubs", <<>>),
     calls |-> Called(cs, "super().__init__"),
     super |-> <<[host |-> host, credentials |-> credentials]>>,
     threw |-> th]

\* variant: the SSL credentials are obtained before the credentials are resolved
InitMtlsSslFirst(kw, env) ==
    LET host        == MtlsHost(Param(kw, "api_mtls_endpoint"))
        given       == Param(kw, "credentials")
        source      == Param(kw, "client_cert_source")
        sslBy       == IF UseCertSource(source) THEN "client_cert_source" ELSE "SslCredentials"
        sslRaises   == IF UseCertSource(source) THEN ~env.client_cert_source
                                                ELSE ~env.SslCredentials
        c1          == Called(ZeroCalls, sslBy)
        t1          == IF sslRaises THEN {sslBy} ELSE {}
        c2          == IF UseCertSource(source) /\ ~sslRaises
                       THEN Called(c1, "grpc.ssl_channel_credentials") ELSE c1
        ssl         == IF UseCertSource(source) THEN SslChannelCredentials
                                                ELSE DefaultSslCredentials
        authRaises  == IsNone(given) /\ ~env.auth_default
        c3          == IF IsNone(given) THEN Called(c2, "auth.default") ELSE c2
        t2          == IF authRaises THEN t1 \cup {"auth.default"} ELSE t1
        credentials == IF IsNone(given) THEN DefaultCredentials ELSE given
        c4          == Called(c3, "grpc_helpers.create_channel")
        t3          == IF env.create_channel THEN t2
                       ELSE t2 \cup {"grpc_helpers.create_channel"}
    IN  IF Propagates(sslRaises)
        THEN InitRaise(<<>>, c1, Raised(sslBy), t1)
        ELSE IF Propagates(authRaises)
        THEN InitRaise(<<>>, c3, Raised("auth.default"), t2)
        ELSE IF Propagates(~env.create_channel)
        THEN InitRaise(<<>>, c4, Raised("grpc_helpers.create_channel"), t3)
        ELSE InitFinish(SetAttr(<<>>, "_grpc_channel",
                                NewChannel(host, credentials, ssl,
                                           c4["grpc_helpers.create_channel"])),
                        c4, host, credentials, t3)

\* the elif api_mtls_endpoint: branch
InitMtls(kw, env) ==
    LET host        == MtlsHost(Param(kw, "api_mtls_endpoint"))
        given       == Param(kw, "credentials")
        source      == Param(kw, "client_cert_source")
        \* credentials, _ = auth.default(scopes=self.AUTH_SCOPES)
        authRaises  == IsNone(given) /\ ~env.auth_default
        c1          == IF IsNone(given) THEN Called(ZeroCalls, "auth.default") ELSE ZeroCalls
        t1          == IF authRaises THEN {"auth.default"} ELSE {}
        credentials == IF IsNone(given) THEN DefaultCredentials ELSE given
        \* cert, key = client_cert_source()  or  SslCredentials().ssl_credentials
        sslBy       == IF UseCertSource(source) THEN "client_cert_source" ELSE "SslCredentials"
        sslRaises   == IF UseCertSource(source) THEN ~env.client_cert_source
                                                ELSE ~env.SslCredentials
        c2          == Called(c1, sslBy)
        t2          == IF sslRaises THEN t1 \cup {sslBy} ELSE t1
        c3          == IF UseCertSource(source) /\ ~sslRaises
                       THEN Called(c2, "grpc.ssl_channel_credentials") ELSE c2
        ssl         == IF UseCertSource(source) THEN SslChannelCredentials
                                                ELSE DefaultSslCredentials
        \* self._grpc_channel = grpc_helpers.create_channel(...)
        c4          == Called(c3, "grpc_helpers.create_channel")
        t3          == IF env.create_channel THEN t2
                       ELSE t2 \cup {"grpc_helpers.create_channel"}
    IN  IF Propagates(authRaises)
        THEN InitRaise(<<>>, c1, Raised("auth.default"), t1)
        ELSE IF Propagates(sslRaises)
        THEN InitRaise(<<>>, c2, Raised(sslBy), t2)
        ELSE IF Propagates(~env.create_channel)
        THEN InitRaise(<<>>, c4, Raised("grpc_helpers.create_channel"), t3)
        ELSE InitFinish(SetAttr(<<>>, "_grpc_channel",
                                NewChannel(host, credentials, ssl,
                                           c4["grpc_helpers.create_channel"])),
                        c4, host, credentials, t3)

\* variant: a channel together with credentials is rejected
TransportInitStrict(kw, env) ==
    IF ChannelSupplied(kw) /\ ~IsNone(Param(kw, "credentials"))
    THEN InitRaise(<<>>, ZeroCalls, Raised("ValueError"), {})
    ELSE IF ChannelSupplied(kw)
    THEN InitFinish(SetAttr(<<>>, "_grpc_channel", Param(kw, "channel")), ZeroCalls,
                    Param(kw, "host"),
                    ChannelBranchCredentials(Param(kw, "credentials")), {})
    ELSE IF MtlsRequested(kw)
    THEN InitMtls(kw, env)
    ELSE InitFinish(<<>>, ZeroCalls, Param(kw, "host"), Param(kw, "credentials"), {})

\* variant: the constructor creates the channel also when no endpoint is given
TransportInitEager(kw, env) ==
    IF ChannelSupplied(kw)
    THEN InitFinish(SetAttr(<<>>, "_grpc_channel", Param(kw, "channel")), ZeroCalls,
                    Param(kw, "host"),
                    ChannelBranchCredentials(Param(kw, "credentials")), {})
    ELSE IF MtlsRequested(kw)
    THEN InitMtls(kw, env)
    ELSE InitFinish(SetAttr(<<>>, "_grpc_channel",
                            NewChannel(Param(kw, "host"), Param(kw, "credentials"), None, 1)),
                    Called(ZeroCalls, "grpc_helpers.create_channel"),
                    Param(kw, "host"), Param(kw, "credentials"), {})

\* variant: without an endpoint the constructor still calls a given callback
TransportInitCertAlways(kw, env) ==
    IF ChannelSupplied(kw)
    THEN InitFinish(SetAttr(<<>>, "_grpc_channel", Param(kw, "channel")), ZeroCalls,
                    Param(kw, "host"),
                    ChannelBranchCredentials(Param(kw, "credentials")), {})
    ELSE IF MtlsRequested(kw)
    THEN InitMtls(kw, env)
    ELSE InitFinish(<<>>,
                    IF UseCertSource(Param(kw, "client_cert_source"))
                    THEN Called(ZeroCalls, "client_cert_source") ELSE ZeroCalls,
                    Param(kw, "host"), Param(kw, "credentials"), {})

\* KeyManagementServiceGrpcTransport(**kw)
TransportInit(kw, env) ==
    IF ChannelSupplied(kw)
    THEN InitFinish(SetAttr(<<>>, "_grpc_channel", Param(kw, "channel")), ZeroCalls,
                    Param(kw, "host"),
                    ChannelBranchCredentials(Param(kw, "credentials")), {})
    ELSE IF MtlsRequested(kw)
    THEN InitMtls(kw, env)
    ELSE InitFinish(<<>>, ZeroCalls, Param(kw, "host"), Param(kw, "credentials"), {})

----------------------------------------------------------------------------
(* The stub accessors.  An operation name is the sequence of the words of  *)
(* the property's snake_case name; a method path is the service name and   *)
(* the sequence of the words of the CamelCase method name.                 *)

\* the names of the 23 accessor properties, in the order of the class body
AccessorNames ==
    {
     <<"list", "key", "rings">>,
     <<"list", "crypto", "keys">>,
     <<"list", "crypto", "key", "versions">>,
     <<"list", "import", "jobs">>,
     <<"get", "key", "ring">>,
     <<"get", "crypto", "key">>,
     <<"get", "crypto", "key", "version">>,
     <<"get", "public", "key">>,
     <<"get", "import", "job">>,
     <<"create", "key", "ring">>,
     <<"create", "crypto", "key">>,
     <<"create", "crypto", "key", "version">>,
     <<"import", "crypto", "key", "version">>,
     <<"create", "import", "job">>,
     <<"update", "crypto", "key">>,
     <<"update", "crypto", "key", "version">>,
     <<"encrypt">>,
     <<"decrypt">>,
     <<"asymmetric", "sign">>,
     <<"asymmetric", "decrypt">>,
     <<"update", "crypto", "key", "primary", "version">>,
     <<"destroy", "crypto", "key", "version">>,
     <<"restore", "crypto", "key", "version">>
    }

ServiceName == "google.cloud.kms.v1.KeyManagementService"

\* what one accessor is written with: the key it looks up, stores under and
\* returns, and the arguments it gives channel.unary_unary
Binding(key, method, request_serializer, response_deserializer) ==
    [key |-> key, path |-> [service |-> ServiceName, method |-> method],
     request_serializer |-> request_serializer,
     response_deserializer |-> response_deserializer]

\* the body of the accessor property called name
AccessorBody(name) ==
    CASE name = <<"list", "key", "rings">> ->
           Binding(<<"list", "key", "rings">>, <<"List", "Key", "Rings">>,
                   "service.ListKeyRingsRequest.serialize",
                   "service.ListKeyRingsResponse.deserialize")
      [] name = <<"list", "crypto", "keys">> ->
           Binding(<<"list", "crypto", "keys">>, <<"List", "Crypto", "Keys">>,
                   "service.ListCryptoKeysRequest.serialize",
                   "service.ListCryptoKeysResponse.deserialize")
      [] name = <<"list", "crypto", "key", "versions">> ->
           Binding(<<"list", "crypto", "key", "versions">>, <<"List", "Crypto", "Key", "Versions">>,
                   "service.ListCryptoKeyVersionsRequest.serialize",
                   "service.ListCryptoKeyVersionsResponse.deserialize")
      [] name = <<"list", "import", "jobs">> ->
           Binding(<<"list", "import", "jobs">>, <<"List", "Import", "Jobs">>,
                   "service.ListImportJobsRequest.serialize",
                   "service.ListImportJobsResponse.deserialize")
      [] name = <<"get", "key", "ring">> ->
           Binding(<<"get", "key", "ring">>, <<"Get", "Key", "Ring">>,
                   "service.GetKeyRingRequest.serialize",
                   "resources.KeyRing.deserialize")
      [] name = <<"get", "crypto", "key">> ->
           Binding(<<"get", "crypto", "key">>, <<"Get", "Crypto", "Key">>,
                   "service.GetCryptoKeyRequest.serialize",
                   "resources.CryptoKey.deserialize")
      [] name = <<"get", "crypto", "key", "version">> ->
           Binding(<<"get", "crypto", "key", "version">>, <<"Get", "Crypto", "Key", "Version">>,
                   "service.GetCryptoKeyVersionRequest.serialize",
                   "resources.CryptoKeyVersion.deserialize")
      [] name = <<"get", "public", "key">> ->
           Binding(<<"get", "public", "key">>, <<"Get", "Public", "Key">>,
                   "service.GetPublicKeyRequest.serialize",
                   "resources.PublicKey.deserialize")
      [] name = <<"get", "import", "job">> ->
           Binding(<<"get", "import", "job">>, <<"Get", "Import", "Job">>,
                   "service.GetImportJobRequest.serialize",
                   "resources.ImportJob.deserialize")
      [] name = <<"create", "key", "ring">> ->
           Binding(<<"create", "key", "ring">>, <<"Create", "Key", "Ring">>,
                   "service.CreateKeyRingRequest.serialize",
                   "resources.KeyRing.deserialize")
      [] name = <<"create", "crypto", "key">> ->
           Binding(<<"create", "crypto", "key">>, <<"Create", "Crypto", "Key">>,
                   "service.CreateCryptoKeyRequest.serialize",
                   "resources.CryptoKey.deserialize")
      [] name = <<"create", "crypto", "key", "version">> ->
           Binding(<<"create", "crypto", "key", "version">>, <<"Create", "Crypto", "Key", "Version">>,
                   "service.CreateCryptoKeyVersionRequest.serialize",
                   "resources.CryptoKeyVersion.deserialize")
      [] name = <<"import", "crypto", "key", "version">> ->
           Binding(<<"import", "crypto", "key", "version">>, <<"Import", "Crypto", "Key", "Version">>,
                   "service.ImportCryptoKeyVersionRequest.serialize",
                   "resources.CryptoKeyVersion.deserialize")
      [] name = <<"create", "import", "job">> ->
           Binding(<<"create", "import", "job">>, <<"Create", "Import", "Job">>,
                   "service.CreateImportJobRequest.serialize",
                   "resources.ImportJob.deserialize")
      [] name = <<"update", "crypto", "key">> ->
           Binding(<<"update", "crypto", "key">>, <<"Update", "Crypto", "Key">>,
                   "service.UpdateCryptoKeyRequest.serialize",
                   "resources.CryptoKey.deserialize")
      [] name = <<"update", "crypto", "key", "version">> ->
           Binding(<<"update", "crypto", "key", "version">>, <<"Update", "Crypto", "Key", "Version">>,
                   "service.UpdateCryptoKeyVersionRequest.serialize",
                   "resources.CryptoKeyVersion.deserialize")
      [] name = <<"encrypt">> ->
           Binding(<<"encrypt">>, <<"Encrypt">>,
                   "service.EncryptRequest.serialize",
                   "service.EncryptResponse.deserialize")
      [] name = <<"decrypt">> ->
           Binding(<<"decrypt">>, <<"Decrypt">>,
                   "service.DecryptRequest.serialize",
                   "service.DecryptResponse.deserialize")
      [] name = <<"asymmetric", "sign">> ->
           Binding(<<"asymmetric", "sign">>, <<"Asymmetric", "Sign">>,
                   "service.AsymmetricSignRequest.serialize",
                   "service.AsymmetricSignResponse.deserialize")
      [] name = <<"asymmetric", "decrypt">> ->
           Binding(<<"asymmetric", "decrypt">>, <<"Asymmetric", "Decrypt">>,
                   "service.AsymmetricDecryptRequest.serialize",
                   "service.AsymmetricDecryptResponse.deserialize")
      [] name = <<"update", "crypto", "key", "primary", "version">> ->
           Binding(<<"update", "crypto", "key", "primary", "version">>, <<"Update", "Crypto", "Key", "Primary", "Version">>,
                   "service.UpdateCryptoKeyPrimaryVersionRequest.serialize",
                   "resources.CryptoKey.deserialize")
      [] name = <<"destroy", "crypto", "key", "version">> ->
           Binding(<<"destroy", "crypto", "key", "version">>, <<"Destroy", "Crypto", "Key", "Version">>,
                   "service.DestroyCryptoKeyVersionRequest.serialize",
                   "resources.CryptoKeyVersion.deserialize")
      [] name = <<"restore", "crypto", "key", "version">> ->
           Binding(<<"restore", "crypto", "key", "version">>, <<"Restore", "Crypto", "Key", "Version">>,
                   "service.RestoreCryptoKeyVersionRequest.serialize",
                   "resources.CryptoKeyVersion.deserialize")

\* the class body's accessors, by name
AccessorTable == [n \in AccessorNames |-> AccessorBody(n)]

\* variant: decrypt's body pasted from encrypt with the key left unchanged
AccessorPastedKey(name) ==
    IF name = <<"decrypt">>
    THEN [AccessorTable[name] EXCEPT !.key = <<"encrypt">>]
    ELSE AccessorTable[name]

\* variant: asymmetric_decrypt's body pasted from decrypt with the path left unchanged
AccessorPastedPath(name) ==
    IF name = <<"asymmetric", "decrypt">>
    THEN [AccessorTable[name] EXCEPT !.path = AccessorTable[<<"decrypt">>].path]
    ELSE AccessorTable[name]

\* the accessor property called name
Accessor(name) == AccessorTable[name]

\* channel.unary_unary(path, request_serializer=..., response_deserializer=...):
\* the n-th callable the accessor built
UnaryUnary(channel, a, n) ==
    [t |-> "UnaryUnaryMultiCallable", channel |-> channel, path |-> a.path,
     request_serializer |-> a.request_serializer,
     response_deserializer |-> a.response_deserializer, n |-> n]

----------------------------------------------------------------------------
(* create_channel, grpc_channel and the accessors' common body *)

\* cls.create_channel(host, credentials=credentials): no ssl_credentials are passed
CreateChannel(host, credentials, n) == NewChannel(host, credentials, None, n)

\* variant: the channel is created on every read
NeedsChannelAlways(o) == TRUE

\* if not hasattr(self, '_grpc_channel'):
NeedsChannel(o) == "_grpc_channel" \notin DOMAIN o

\* variant: the attribute is bound before create_channel has returned
GrpcChannelStoresFailure(o, cs, ok) ==
    IF NeedsChannel(o)
    THEN LET cs2 == Called(Called(cs, "create_channel"), "grpc_helpers.create_channel")
             ch  == CreateChannel(o["_host"], o["_credentials"],
                                  cs2["grpc_helpers.create_channel"])
             th  == IF ok THEN {} ELSE {"grpc_helpers.create_channel"}
         IN  IF Propagates(~ok)
             THEN [exc |-> Raised("grpc_helpers.create_channel"),
                   self |-> SetAttr(o, "_grpc_channel", None),
                   calls |-> cs2, value |-> None, threw |-> th]
             ELSE [exc |-> None, self |-> SetAttr(o, "_grpc_channel", ch),
                   calls |-> cs2, value |-> ch, threw |-> th]
    ELSE [exc |-> None, self |-> o, calls |-> cs, value |-> o["_grpc_channel"],
          threw |-> {}]

\* the grpc_channel property, read on o; ok: create_channel returns
GrpcChannel(o, cs, ok) ==
    IF NeedsChannel(o)
    THEN LET cs2 == Called(Called(cs, "create_channel"), "grpc_helpers.create_channel")
             ch  == CreateChannel(o["_host"], o["_credentials"],
                                  cs2["grpc_helpers.create_channel"])
             th  == IF ok THEN {} ELSE {"grpc_helpers.create_channel"}
         IN  IF Propagates(~ok)
             THEN [exc |-> Raised("grpc_helpers.create_channel"), self |-> o,
                   calls |-> cs2, value |-> None, threw |-> th]
             ELSE [exc |-> None, self |-> SetAttr(o, "_grpc_channel", ch),
                   calls |-> cs2, value |-> ch, threw |-> th]
    ELSE [exc |-> None, self |-> o, calls |-> cs, value |-> o["_grpc_channel"],
          threw |-> {}]

\* variant: the stub is rebuilt on every access
StubMissingAlways(o, key) == TRUE

\* if '<key>' not in self._stubs:
StubMissing(o, key) == key \notin DOMAIN o["_stubs"]

\* variant: the accessors wrap the callable before they store and return it
StubAccessWrapped(o, cs, uu, a, env) ==
    IF StubMissing(o, a.key)
    THEN LET g    == GrpcChannel(o, cs, env.create_channel)
             stub == [t |-> "Wrapper", inner |-> UnaryUnary(g.value, a, uu + 1)]
             th   == IF env.unary_unary THEN g.threw ELSE g.threw \cup {"unary_unary"}
         IN  IF ~IsNone(g.exc)
             THEN [exc |-> g.exc, self |-> g.self, calls |-> g.calls, uu |-> uu,
                   value |-> None, channel |-> <<>>, threw |-> g.threw]
             ELSE IF Propagates(~env.unary_unary)
             THEN [exc |-> Raised("unary_unary"), self |-> g.self, calls |-> g.calls,
                   uu |-> uu + 1, value |-> None, channel |-> <<g.value>>, threw |-> th]
             ELSE LET o2 == SetAttr(g.self, "_stubs",
                                   SetItem(g.self["_stubs"], a.key, stub))
                  IN  [exc |-> None, self |-> o2, calls |-> g.calls, uu |-> uu + 1,
                       value |-> o2["_stubs"][a.key], channel |-> <<g.value>>,
                       threw |-> th]
    ELSE [exc |-> None, self |-> o, calls |-> cs, uu |-> uu,
          value |-> o["_stubs"][a.key], channel |-> <<>>, threw |-> {}]

\* variant: the mapping keeps only the callable built last
StubAccessEvicting(o, cs, uu, a, env) ==
    IF StubMissing(o, a.key)
    THEN LET g    == GrpcChannel(o, cs, env.create_channel)
             stub == UnaryUnary(g.value, a, uu + 1)
             th   == IF env.unary_unary THEN g.threw ELSE g.threw \cup {"unary_unary"}
         IN  IF ~IsNone(g.exc)
             THEN [exc |-> g.exc, self |-> g.self, calls |-> g.calls, uu |-> uu,
                   value |-> None, channel |-> <<>>, threw |-> g.threw]
             ELSE IF Propagates(~env.unary_unary)
             THEN [exc |-> Raised("unary_unary"), self |-> g.self, calls |-> g.calls,
                   uu |-> uu + 1, value |-> None, channel |-> <<g.value>>, threw |-> th]
             ELSE LET o2 == SetAttr(g.self, "_stubs", SetItem(<<>>, a.key, stub))
                  IN  [exc |-> None, self |-> o2, calls |-> g.calls, uu |-> uu + 1,
                       value |-> o2["_stubs"][a.key], channel |-> <<g.value>>,
                       threw |-> th]
    ELSE [exc |-> None, self |-> o, calls |-> cs, uu |-> uu,
          value |-> o["_stubs"][a.key], channel |-> <<>>, threw |-> {}]

\* the body of accessor a on o; uu: the calls of unary_unary it has made so
\* far; env: whether create_channel and unary_unary return
StubAccess(o, cs, uu, a, env) ==
    IF StubMissing(o, a.key)
    THEN LET g    == GrpcChannel(o, cs, env.create_channel)
             stub == UnaryUnary(g.value, a, uu + 1)
             th   == IF env.unary_unary THEN g.threw ELSE g.threw \cup {"unary_unary"}
         IN  IF ~IsNone(g.exc)
             THEN [exc |-> g.exc, self |-> g.self, calls |-> g.calls, uu |-> uu,
                   value |-> None, channel |-> <<>>, threw |-> g.threw]
             ELSE IF Propagates(~env.unary_unary)
             THEN [exc |-> Raised("unary_unary"), self |-> g.self, calls |-> g.calls,
                   uu |-> uu + 1, value |-> None, channel |-> <<g.value>>, threw |-> th]
             ELSE LET o2 == SetAttr(g.self, "_stubs",
                                   SetItem(g.self["_stubs"], a.key, stub))
                  IN  [exc |-> None, self |-> o2, calls |-> g.calls, uu |-> uu + 1,
                       value |-> o2["_stubs"][a.key], channel |-> <<g.value>>,
                       threw |-> th]
    ELSE [exc |-> None, self |-> o, calls |-> cs, uu |-> uu,
          value |-> o["_stubs"][a.key], channel |-> <<>>, threw |-> {}]

----------------------------------------------------------------------------
(* The state machine: one constructor call, then reads of grpc_channel and *)
(* accesses to the accessors, on one thread.                               *)

\* the names operations are recorded under in errs
OfInit == <<"__init__">>

OfGrpcChannel == <<"grpc", "channel">>

\* accessor name has returned v
Returned(d, name, v) ==
    SetItem(d, name, [first |-> IF name \in DOMAIN d THEN d[name].first ELSE v, last |-> v])

\* the accessors that have been accessed with some effect
Touched == DOMAIN uuCalls \cup (DOMAIN errs \ {OfInit, OfGrpcChannel})

\* how often accessor name has invoked unary_unary
Invocations(name) == IF name \in DOMAIN uuCalls THEN uuCalls[name] ELSE 0

\* the accessors among names a run may access next, when it touches at most
\* limit of them
Candidates(names, limit) ==
    IF Cardinality(Touched) < limit THEN names ELSE names \cap Touched

\* no sample script is running
NoScript == <<>>

\* no call of a returned callable has been made
NoRpc == [user |-> 0, underlying |-> 0, last |-> <<>>]

\* the outcomes of the collaborator calls of one access
AccessEnvs == [create_channel : BOOLEAN, unary_unary : BOOLEAN]

Init ==
    /\ pc = "new"
    /\ kwargs \in {MkKwargs(h, c, ch, ep, cs) :
                     h \in HostChoices, c \in CredentialsChoices, ch \in ChannelChoices,
                     ep \in EndpointChoices, cs \in CertSourceChoices}
    /\ self = <<>>
    /\ calls = ZeroCalls
    /\ superArgs = <<>>
    /\ uuCalls = <<>>
    /\ seen = {}
    /\ done = <<>>
    /\ errs = <<>>
    /\ threw = {}
    /\ failures = 0
    /\ threads = <<>>
    /\ started = 0
    /\ rpc = NoRpc
    /\ script = NoScript

\* transport = KeyManagementServiceGrpcTransport(**kwargs)
Construct ==
    /\ pc = "new"
    /\ \E env \in Envs :
         LET r == TransportInit(kwargs, env)
         IN  /\ pc' = IF IsNone(r.exc) THEN "ready" ELSE "raised"
             /\ self' = r.self
             /\ calls' = r.calls
             /\ superArgs' = r.super
             /\ errs' = IF IsNone(r.exc) THEN errs ELSE SetItem(errs, OfInit, r.exc)
             /\ threw' = r.threw
    /\ UNCHANGED <<script, rpc, kwargs, uuCalls, seen, done, failures, threads, started>>

\* transport.grpc_channel
ReadGrpcChannel ==
    /\ pc = "ready"
    /\ calls["create_channel"] <= MaxFailures + 1
    /\ \E ok \in BOOLEAN :
         /\ ok \/ (failures < MaxFailures /\ NeedsChannel(self))
         /\ LET r == GrpcChannel(self, calls, ok)
            IN  /\ self' = r.self
                /\ calls' = r.calls
                /\ errs' = IF IsNone(r.exc) THEN errs ELSE SetItem(errs, OfGrpcChannel, r.exc)
                /\ seen' = IF IsNone(r.exc) THEN seen \cup {r.value} ELSE seen
                /\ threw' = threw \cup r.threw
                /\ failures' = IF IsNone(r.exc) THEN failures ELSE failures + 1
    /\ UNCHANGED <<script, rpc, pc, kwargs, superArgs, uuCalls, done, threads, started>>

\* transport.<name>
Access(name) ==
    /\ pc = "ready"
    \* no more rebuilding than one beyond what the failures account for
    /\ Invocations(name) <= MaxFailures + 1
    /\ calls["create_channel"] <= MaxFailures + 1
    /\ \E env \in AccessEnvs :
         \* a collaborator that is not called has no outcome to choose
         /\ env.create_channel \/ (failures < MaxFailures /\ NeedsChannel(self))
         /\ env.unary_unary
            \/ (failures < MaxFailures /\ env.create_channel
                /\ StubMissing(self, Accessor(name).key))
         /\ LET r == StubAccess(self, calls, Invocations(name), Accessor(name), env)
            IN  /\ self' = r.self
                /\ calls' = r.calls
                /\ uuCalls' = IF r.uu > 0 THEN SetItem(uuCalls, name, r.uu) ELSE uuCalls
                /\ errs' = IF IsNone(r.exc) THEN errs ELSE SetItem(errs, name, r.exc)
                /\ seen' = seen \cup {r.channel[i] : i \in DOMAIN r.channel}
                /\ done' = IF IsNone(r.exc) THEN Returned(done, name, r.value) ELSE done
                /\ threw' = threw \cup r.threw
                /\ failures' = IF IsNone(r.exc) THEN failures ELSE failures + 1
    /\ UNCHANGED <<script, rpc, pc, kwargs, superArgs, threads, started>>

\* the accessors a run of Spec draws from: the first, one of the middle and the
\* last of the class body
ExercisedAccessors ==
    {<<"list", "key", "rings">>, <<"encrypt">>,
     <<"restore", "crypto", "key", "version">>}

\* every combination of constructor arguments, a few of the accessors
Next ==
    \/ Construct
    \/ ReadGrpcChannel
    \/ \E name \in Candidates(ExercisedAccessors, MaxOps) : Access(name)

Spec == Init /\ [][Next]_vars

\* the constructor calls a run of SpecAccessors draws from, one for each way the
\* channel is obtained: supplied, mutual TLS, created on first use
ModeKwargs ==
    {MkKwargs(Absent, Absent, UserChannel, Absent, Absent),
     MkKwargs(Absent, UserCredentials, Absent, Str(<<"kms.mtls.example.test">>), CertSource),
     MkKwargs(Absent, UserCredentials, Absent, Absent, Absent)}

InitModes ==
    /\ pc = "new"
    /\ kwargs \in ModeKwargs
    /\ self = <<>>
    /\ calls = ZeroCalls
    /\ superArgs = <<>>
    /\ uuCalls = <<>>
    /\ seen = {}
    /\ done = <<>>
    /\ errs = <<>>
    /\ threw = {}
    /\ failures = 0
    /\ threads = <<>>
    /\ started = 0
    /\ rpc = NoRpc
    /\ script = NoScript

\* a few constructor calls, every accessor
NextAccessors ==
    \/ Construct
    \/ ReadGrpcChannel
    \/ \E name \in Candidates(AccessorNames, MaxAccessors) : Access(name)

SpecAccessors == InitModes /\ [][NextAccessors]_vars

----------------------------------------------------------------------------
(* Several threads on one facade.  A step is one statement of an accessor  *)
(* or of grpc_channel, as the interpreter runs it under its lock: a test,  *)
(* a call of a collaborator, a store, a read.  Nothing in the class        *)
(* excludes another thread between two of them.  The objects the           *)
(* collaborators return are told apart by the thread that obtained them: a *)
(* thread obtains at most one channel, and one callable for an accessor.   *)
(* The collaborators return here; what a collaborator that raises leaves   *)
(* behind is the subject of Spec and SpecAccessors.                        *)

Threads == 1 .. NumThreads

\* a thread outside any accessor
IdleThread ==
    [at |-> "idle", name |-> <<>>, chan |-> <<>>, stub |-> <<>>, expect |-> <<>>]

\* no thread is inside an accessor
Quiescent == \A t \in DOMAIN threads : threads[t].at = "idle"

\* thread t goes on at statement at
Goto(t, at) == [threads EXCEPT ![t].at = at]

\* the accessors the threads of SpecThreads call
RacedAccessors == {<<"list", "key", "rings">>, <<"encrypt">>}

\* the constructor calls a run of SpecThreads draws from: a channel supplied,
\* a channel created on first use
ThreadKwargs ==
    {MkKwargs(Absent, Absent, UserChannel, Absent, Absent),
     MkKwargs(Absent, UserCredentials, Absent, Absent, Absent)}

InitThreads ==
    /\ pc = "new"
    /\ kwargs \in ThreadKwargs
    /\ self = <<>>
    /\ calls = ZeroCalls
    /\ superArgs = <<>>
    /\ uuCalls = <<>>
    /\ seen = {}
    /\ done = <<>>
    /\ errs = <<>>
    /\ threw = {}
    /\ failures = 0
    /\ threads = [t \in Threads |-> IdleThread]
    /\ started = 0
    /\ rpc = NoRpc
    /\ script = NoScript

\* thread t reads transport.<name>, up to and with the accessor's first
\* statement:  if '<key>' not in self._stubs:
\* expect: the binding the mapping holds for name when the call starts with no
\* other call in progress.  Threads are alike, so the next call is made by the
\* first thread that is free.
ThreadCall(t, name) ==
    /\ pc = "ready"
    /\ threads[t].at = "idle"
    /\ \A u \in Threads : u < t => threads[u].at # "idle"
    /\ started < MaxCalls
    /\ started' = started + 1
    /\ threads' = [threads EXCEPT ![t] =
                     [at |-> IF StubMissing(self, Accessor(name).key)
                             THEN "channel_check" ELSE "return",
                      name |-> name, chan |-> <<>>, stub |-> <<>>,
                      expect |-> IF Quiescent /\ name \in DOMAIN self["_stubs"]
                                 THEN <<self["_stubs"][name]>> ELSE <<>>]]
    /\ UNCHANGED <<script, rpc, pc, kwargs, self, calls, superArgs, uuCalls, seen, done, errs,
                   threw, failures>>

\* self.grpc_channel: if not hasattr(self, '_grpc_channel'):
ThreadChannelCheck(t) ==
    /\ threads[t].at = "channel_check"
    /\ threads' = Goto(t, IF NeedsChannel(self) THEN "channel_create" ELSE "channel_return")
    /\ UNCHANGED <<script, rpc, pc, kwargs, self, calls, superArgs, uuCalls, seen, done, errs,
                   threw, failures, started>>

\* self.create_channel(self._host, credentials=self._credentials)
ThreadChannelCreate(t) ==
    /\ threads[t].at = "channel_create"
    /\ calls' = Called(Called(calls, "create_channel"), "grpc_helpers.create_channel")
    /\ threads' = [threads EXCEPT
                     ![t].at = "channel_store",
                     ![t].chan = <<CreateChannel(self["_host"], self["_credentials"], t)>>]
    /\ UNCHANGED <<script, rpc, pc, kwargs, self, superArgs, uuCalls, seen, done, errs, threw,
                   failures, started>>

\* self._grpc_channel = <the channel create_channel returned>
ThreadChannelStore(t) ==
    /\ threads[t].at = "channel_store"
    /\ self' = SetAttr(self, "_grpc_channel", threads[t].chan[1])
    /\ threads' = Goto(t, "channel_return")
    /\ UNCHANGED <<script, rpc, pc, kwargs, calls, superArgs, uuCalls, seen, done, errs, threw,
                   failures, started>>

\* return self._grpc_channel
ThreadChannelReturn(t) ==
    /\ threads[t].at = "channel_return"
    /\ threads' = [threads EXCEPT ![t].at = "build",
                                  ![t].chan = <<self["_grpc_channel"]>>]
    /\ seen' = seen \cup {self["_grpc_channel"]}
    /\ UNCHANGED <<script, rpc, pc, kwargs, self, calls, superArgs, uuCalls, done, errs, threw,
                   failures, started>>

\* <the channel>.unary_unary('<path>', request_serializer=..., response_deserializer=...)
ThreadBuild(t) ==
    /\ threads[t].at = "build"
    /\ uuCalls' = SetItem(uuCalls, threads[t].name, Invocations(threads[t].name) + 1)
    /\ threads' = [threads EXCEPT
                     ![t].at = "store",
                     ![t].stub = <<UnaryUnary(threads[t].chan[1],
                                              Accessor(threads[t].name), t)>>]
    /\ UNCHANGED <<script, rpc, pc, kwargs, self, calls, superArgs, seen, done, errs, threw,
                   failures, started>>

\* self._stubs['<key>'] = <the callable unary_unary returned>
ThreadStore(t) ==
    /\ threads[t].at = "store"
    /\ self' = SetAttr(self, "_stubs",
                       SetItem(self["_stubs"], Accessor(threads[t].name).key,
                               threads[t].stub[1]))
    /\ threads' = Goto(t, "return")
    /\ UNCHANGED <<script, rpc, pc, kwargs, calls, superArgs, uuCalls, seen, done, errs, threw,
                   failures, started>>

\* return self._stubs['<key>']
ThreadReturn(t) ==
    /\ threads[t].at = "return"
    /\ LET v == self["_stubs"][Accessor(threads[t].name).key]
       IN  /\ threads' = [threads EXCEPT ![t] = IdleThread]
           /\ done' = Returned(done, threads[t].name, v)
    /\ UNCHANGED <<script, rpc, pc, kwargs, self, calls, superArgs, uuCalls, seen, errs, threw,
                   failures, started>>

\* one constructor call, then the threads' statements in any order
NextThreads ==
    \/ Construct
    \/ \E t \in Threads :
         \/ \E name \in RacedAccessors : ThreadCall(t, name)
         \/ ThreadChannelCheck(t)
         \/ ThreadChannelCreate(t)
         \/ ThreadChannelStore(t)
         \/ ThreadChannelReturn(t)
         \/ ThreadBuild(t)
         \/ ThreadStore(t)
         \/ ThreadReturn(t)

SpecThreads == InitThreads /\ [][NextThreads]_vars

----------------------------------------------------------------------------
(* The user of an accessor calls what it returned.  The callable is an     *)
(* object of the gRPC library: the call runs the remote procedure once and *)
(* hands back its response or raises its error.                            *)

\* what the remote procedure does with one request
RpcOutcomes == {"response", "RpcError"}

\* callable(request): the object called, how often the remote procedure is
\* invoked, and what the caller observes when it does outcome
CallOf(callable, outcome) ==
    [callee |-> callable, invocations |-> 1, observed |-> outcome]

\* transport.<name>(request), with the callable the accessor returned last
Invoke(name) ==
    /\ pc = "ready"
    /\ name \in DOMAIN done
    /\ rpc.user < MaxRpcs
    /\ \E outcome \in RpcOutcomes :
         LET r == CallOf(done[name].last, outcome)
         IN  rpc' = [user |-> rpc.user + 1,
                     underlying |-> rpc.underlying + r.invocations,
                     last |-> <<[name |-> name, callee |-> r.callee,
                                 produced |-> outcome, observed |-> r.observed]>>]
    /\ UNCHANGED <<script, pc, kwargs, self, calls, superArgs, uuCalls, seen, done, errs, threw,
                   failures, threads, started>>

\* a few constructor calls, accesses and calls of what the accesses returned
NextCalls ==
    \/ Construct
    \/ \E name \in Candidates(ExercisedAccessors, MaxOps) : Access(name)
    \/ \E name \in ExercisedAccessors : Invoke(name)

SpecCalls == InitModes /\ [][NextCalls]_vars

----------------------------------------------------------------------------
(* The sample scripts sample.py, web_sample.py and nomtls.py.  Each makes  *)
(* a client, computes the resource name of the "global" location, lists    *)
(* the key rings under it and prints them.  A step is one statement.  The  *)
(* device's certificate, the process environment, the server's key rings   *)
(* and whether a library call returns are the environment's choice.        *)

\* the variables of the transport, which the scripts reach only through the
\* client library
transportVars ==
    <<pc, kwargs, self, calls, superArgs, uuCalls, seen, done, errs, threw, failures,
      threads, started, rpc>>

ScriptNames == {"sample", "web_sample", "nomtls"}

\* the names a server may have given its key rings
KeyRingNames == {"kr1", "kr2"}

\* list(response): what the server holds under the parent
Responses == UNION {[1 .. n -> KeyRingNames] : n \in 0 .. MaxKeyRings}

\* the names bound at module level when the function of script name runs
ModuleNames(name) ==
    CASE name = "sample" ->
           {"ClientOptions", "google", "mtls", "KeyManagementServiceClient",
            "ListKeyRingsRequest", "project_id", "list_key_rings"}
      [] name = "web_sample" ->
           {"KeyManagementServiceClient", "ListKeyRingsRequest", "google", "project_id",
            "json_file_path", "Flask", "redirect", "request", "app", "Flow", "flow",
            "creds", "login", "get_code"}
      [] name = "nomtls" -> {"os", "run_quickstart"}

\* template.format(*args, **keywords) for a template whose replacement fields
\* are the named fields, with the arguments read from the names read: the
\* exception it ends in, "" when it returns
FormatOutcome(name, read, fields, keywords) ==
    IF ~(read \subseteq ModuleNames(name)) THEN "NameError"
    ELSE IF ~(fields \subseteq keywords) THEN "KeyError"
    ELSE ""

\* the callback mtls.default_client_cert_source() returns
DefaultClientCertSource == [t |-> "callable", name |-> "default_client_cert_source"]

\* a script about to run
StartOf(name) ==
    [name |-> name, at |-> "start", callback |-> <<>>, client |-> <<>>, parent |-> <<>>,
     response_list |-> <<>>, i |-> 0, listed |-> 0, out |-> <<>>, exc |-> ""]

\* the script's statement raises e, which nothing catches
ScriptRaise(e) == [script EXCEPT !.at = "raised", !.exc = e]

\* X(...) returns, or raises when ok is false
AfterCall(ok, next) == IF ok THEN next ELSE ScriptRaise("LibraryError")

InitSamples ==
    /\ pc = "new"
    /\ kwargs = MkKwargs(Absent, Absent, Absent, Absent, Absent)
    /\ self = <<>>
    /\ calls = ZeroCalls
    /\ superArgs = <<>>
    /\ uuCalls = <<>>
    /\ seen = {}
    /\ done = <<>>
    /\ errs = <<>>
    /\ threw = {}
    /\ failures = 0
    /\ threads = <<>>
    /\ started = 0
    /\ rpc = NoRpc
    /\ script \in {StartOf(name) : name \in ScriptNames}

\* sample.py: cred = google.oauth2.credentials.UserAccessTokenCredentials()
SampleCred ==
    /\ script.name = "sample"
    /\ script.at = "start"
    /\ script' = [script EXCEPT !.at = "callback"]
    /\ UNCHANGED transportVars

\* sample.py: if mtls.has_default_client_cert_source(): ... else: ...
SampleCallback ==
    /\ script.name = "sample"
    /\ script.at = "callback"
    /\ \E has_default \in BOOLEAN :
         script' = IF has_default
                   THEN [script EXCEPT
                           !.at = "client",
                           !.out = Append(@, "Default client cert source is found. It will be used to create mutual TLS channel"),
                           !.callback = <<DefaultClientCertSource>>]
                   ELSE [script EXCEPT
                           !.at = "client",
                           !.out = Append(@, "Default client cert source is not found. Mutual TLS channel will not be created"),
                           !.callback = <<None>>]
    /\ UNCHANGED transportVars

\* sample.py: client_options = ClientOptions.ClientOptions(client_cert_source=callback)
\*            client = KeyManagementServiceClient(credentials=cred, client_options=client_options)
SampleClient ==
    /\ script.name = "sample"
    /\ script.at = "client"
    /\ \E ok \in BOOLEAN :
         script' = AfterCall(ok, [script EXCEPT
                                    !.at = "parent",
                                    !.client = <<[credentials |-> "cred",
                                                  client_cert_source |-> script.callback[1]]>>])
    /\ UNCHANGED transportVars

\* sample.py: parent = "projects/{project}/locations/global".format(project)
SampleParent ==
    /\ script.name = "sample"
    /\ script.at = "parent"
    /\ LET e == FormatOutcome("sample", {"project"}, {"project"}, {})
       IN  script' = IF e # "" THEN ScriptRaise(e)
                     ELSE [script EXCEPT !.at = "list",
                                         !.parent = <<"projects/{project}/locations/global">>]
    /\ UNCHANGED transportVars

\* web_sample.py: code = request.args.get('code'); flow.fetch_token(code=code)
\*                creds = flow.credentials; print(creds.token)
WebGetCode ==
    /\ script.name = "web_sample"
    /\ script.at = "start"
    /\ \E ok \in BOOLEAN :
         script' = AfterCall(ok, [script EXCEPT !.at = "client",
                                                !.out = Append(@, "creds.token")])
    /\ UNCHANGED transportVars

\* web_sample.py: client = KeyManagementServiceClient(credentials=creds)
WebClient ==
    /\ script.name = "web_sample"
    /\ script.at = "client"
    /\ \E ok \in BOOLEAN :
         script' = AfterCall(ok, [script EXCEPT
                                    !.at = "parent",
                                    !.client = <<[credentials |-> "creds",
                                                  client_cert_source |-> None]>>])
    /\ UNCHANGED transportVars

\* web_sample.py: parent = "projects/{project}/locations/{location}".format(
\*                    project=project_id, location="global")
WebParent ==
    /\ script.name = "web_sample"
    /\ script.at = "parent"
    /\ LET e == FormatOutcome("web_sample", {"project_id"}, {"project", "location"},
                              {"project", "location"})
       IN  script' = IF e # "" THEN ScriptRaise(e)
                     ELSE [script EXCEPT !.at = "list",
                                         !.parent = <<"projects/project_id/locations/global">>]
    /\ UNCHANGED transportVars

\* nomtls.py: project_id = os.environ["GCLOUD_PROJECT"]; location = "global"
NomtlsProject ==
    /\ script.name = "nomtls"
    /\ script.at = "start"
    /\ \E is_set \in BOOLEAN :
         script' = IF is_set THEN [script EXCEPT !.at = "client"] ELSE ScriptRaise("KeyError")
    /\ UNCHANGED transportVars

\* nomtls.py: client = kms_v1.KeyManagementServiceClient()
NomtlsClient ==
    /\ script.name = "nomtls"
    /\ script.at = "client"
    /\ \E ok \in BOOLEAN :
         script' = AfterCall(ok, [script EXCEPT
                                    !.at = "parent",
                                    !.client = <<[credentials |-> "default",
                                                  client_cert_source |-> None]>>])
    /\ UNCHANGED transportVars

\* nomtls.py: parent = client.location_path(project_id, location)
NomtlsParent ==
    /\ script.name = "nomtls"
    /\ script.at = "parent"
    /\ script' = [script EXCEPT !.at = "list",
                                !.parent = <<"projects/project_id/locations/global">>]
    /\ UNCHANGED transportVars

\* response = client.list_key_rings(parent=parent); response_list = list(response)
ListKeyRings ==
    /\ script.at = "list"
    /\ \/ \E r \in Responses :
            script' = [script EXCEPT !.at = "print", !.listed = @ + 1,
                                     !.response_list = <<r>>]
       \/ script' = [ScriptRaise("LibraryError") EXCEPT !.listed = @ + 1]
    /\ UNCHANGED transportVars

\* if len(response_list) > 0: print("Key rings:")
PrintHeader ==
    /\ script.at = "print"
    /\ Len(script.response_list[1]) > 0
    /\ script' = [script EXCEPT !.at = "loop", !.i = 1, !.out = Append(@, "Key rings:")]
    /\ UNCHANGED transportVars

\* for key_ring in response_list: print(key_ring.name)
PrintKeyRing ==
    /\ script.at = "loop"
    /\ script' = [script EXCEPT
                    !.at = IF script.i < Len(script.response_list[1]) THEN "loop" ELSE "done",
                    !.i = @ + 1,
                    !.out = Append(@, script.response_list[1][script.i])]
    /\ UNCHANGED transportVars

\* else: print("No key rings found.")
PrintNone ==
    /\ script.at = "print"
    /\ Len(script.response_list[1]) = 0
    /\ script' = [script EXCEPT !.at = "done", !.out = Append(@, "No key rings found.")]
    /\ UNCHANGED transportVars

NextSamples ==
    \/ SampleCred
    \/ SampleCallback
    \/ SampleClient
    \/ SampleParent
    \/ WebGetCode
    \/ WebClient
    \/ WebParent
    \/ NomtlsProject
    \/ NomtlsClient
    \/ NomtlsParent
    \/ ListKeyRings
    \/ PrintHeader
    \/ PrintKeyRing
    \/ PrintNone

SpecSamples == InitSamples /\ [][NextSamples]_vars

----------------------------------------------------------------------------
(* Properties.  The call's arguments are read from kwargs directly, so     *)
(* that a property does not lean on the operators it is about.             *)

\* the stub mapping, empty while self._stubs is not set
Stubs == IF "_stubs" \in DOMAIN self THEN self["_stubs"] ELSE <<>>

GivenHost == "host" \in DOMAIN kwargs

GivenCredentials == "credentials" \in DOMAIN kwargs

GivenChannel == "channel" \in DOMAIN kwargs

GivenCertSource == "client_cert_source" \in DOMAIN kwargs

\* api_mtls_endpoint is given and is not the empty string
GivenMtls ==
    /\ "api_mtls_endpoint" \in DOMAIN kwargs
    /\ Len(kwargs["api_mtls_endpoint"].s) > 0

\* the collaborators that the constructor calls
InitCollaborators ==
    {"auth.default", "client_cert_source", "SslCredentials", "grpc_helpers.create_channel"}

(* C1 as stated: on one thread, every access to an accessor after the first *)
(* returns the binding the first access returned, and the accessor invokes  *)
(* channel.unary_unary at most once over the whole run.                     *)
C1_Original ==
    \A name \in AccessorNames :
        /\ Invocations(name) <= 1
        /\ name \in DOMAIN done => done[name].last = done[name].first

(* C1 as amended: once an access to an accessor has returned, every later   *)
(* access returns that same binding object and the accessor does not invoke *)
(* unary_unary again: the binding it holds was built by its last            *)
(* invocation, and every invocation before that one raised.                 *)
C1_NoRebuild ==
    \A name \in DOMAIN done :
        /\ done[name].last = done[name].first
        /\ Invocations(name) = done[name].first.n

\* an accessor whose first invocation raised and whose second access returned
C1_Witness ==
    \E name \in DOMAIN done :
        /\ Invocations(name) = 2
        /\ name \in DOMAIN errs
        /\ done[name].first.n = 2

(* C2: the stub mapping is not set before the constructor has returned, is  *)
(* empty right after, and at every moment holds an entry for exactly the    *)
(* accessors that have returned from an access, each under the accessor's   *)
(* own name and holding the binding that accessor returned.                 *)
C2_StubsIffAccessed ==
    /\ pc # "ready" => "_stubs" \notin DOMAIN self /\ DOMAIN done = {}
    /\ pc = "ready" =>
         /\ "_stubs" \in DOMAIN self
         /\ DOMAIN self["_stubs"] = DOMAIN done
         /\ \A name \in DOMAIN done : self["_stubs"][name] = done[name].first

\* an accessor was accessed and raised, and holds no entry in the mapping of
\* a constructed facade
C2_Witness ==
    /\ pc = "ready"
    /\ "_stubs" \in DOMAIN self
    /\ \E name \in Touched \ DOMAIN done :
         /\ Invocations(name) = 1
         /\ name \notin DOMAIN Stubs

(* C3: however the facade was constructed, at most one channel is ever      *)
(* created for it: every read of grpc_channel returns the one channel held  *)
(* in _grpc_channel, every stub in the mapping was built on that channel,   *)
(* and no channel creation is attempted after one has succeeded.            *)
C3_OneChannel ==
    /\ Cardinality(seen) <= 1
    /\ IF "_grpc_channel" \in DOMAIN self
       THEN /\ seen \subseteq {self["_grpc_channel"]}
            /\ \A k \in DOMAIN Stubs : Stubs[k].channel = self["_grpc_channel"]
            /\ calls["grpc_helpers.create_channel"] =
                 IF self["_grpc_channel"].from = "argument"
                 THEN 0 ELSE self["_grpc_channel"].n
       ELSE seen = {} /\ DOMAIN Stubs = {}

\* a channel created on first use, read back and shared by two stubs
C3_Witness ==
    /\ pc = "ready"
    /\ ~GivenChannel /\ ~GivenMtls
    /\ "_grpc_channel" \in DOMAIN self
    /\ seen = {self["_grpc_channel"]}
    /\ Cardinality(DOMAIN Stubs) = 2

C5_CredentialsIgnored ==
    (GivenChannel /\ GivenCredentials) =>
        /\ pc # "raised"
        /\ pc = "ready" =>
             /\ Len(superArgs) = 1
             /\ superArgs[1].credentials = False
             /\ calls["grpc_helpers.create_channel"] = 0
             /\ self["_grpc_channel"] = kwargs["channel"]
             /\ \A k \in DOMAIN Stubs : Stubs[k].channel = kwargs["channel"]

\* such a facade with two stubs
C5_Witness ==
    /\ GivenChannel /\ GivenCredentials
    /\ pc = "ready"
    /\ Cardinality(DOMAIN Stubs) = 2

C7_FailFast ==
    (GivenMtls /\ ~GivenChannel /\ threw \cap {"auth.default", "client_cert_source"} # {}) =>
        /\ pc = "raised"
        /\ OfInit \in DOMAIN errs
        /\ errs[OfInit].by \in threw \cap {"auth.default", "client_cert_source"}
        /\ DOMAIN self = {}
        /\ calls["grpc_helpers.create_channel"] = 0
        /\ calls["create_channel"] = 0
        /\ calls["super().__init__"] = 0
        /\ Len(superArgs) = 0
        /\ DOMAIN uuCalls = {}
        /\ DOMAIN done = {}

\* the callback raised after the default credentials had been resolved
C7_Witness ==
    /\ GivenMtls /\ ~GivenChannel /\ ~GivenCredentials
    /\ threw = {"client_cert_source"}
    /\ pc = "raised"
    /\ calls["auth.default"] = 1

CreatedChannels ==
    IF "_grpc_channel" \in DOMAIN self /\ ~GivenChannel
    THEN {self["_grpc_channel"]} ELSE {}

SpecOperations ==
    {<<"list", "key", "rings">>, <<"list", "crypto", "keys">>,
     <<"list", "crypto", "key", "versions">>, <<"list", "import", "jobs">>,
     <<"get", "key", "ring">>, <<"get", "crypto", "key">>,
     <<"get", "crypto", "key", "version">>, <<"get", "public", "key">>,
     <<"get", "import", "job">>, <<"create", "key", "ring">>,
     <<"create", "crypto", "key">>, <<"create", "crypto", "key", "version">>,
     <<"import", "crypto", "key", "version">>, <<"create", "import", "job">>,
     <<"update", "crypto", "key">>, <<"update", "crypto", "key", "version">>,
     <<"encrypt">>, <<"decrypt">>, <<"asymmetric", "sign">>,
     <<"asymmetric", "decrypt">>,
     <<"update", "crypto", "key", "primary", "version">>,
     <<"destroy", "crypto", "key", "version">>,
     <<"restore", "crypto", "key", "version">>}

\* a word with its first letter in upper case
Capitalized(w) ==
    CASE w = "asymmetric" -> "Asymmetric" [] w = "create"   -> "Create"
      [] w = "crypto"     -> "Crypto"     [] w = "decrypt"  -> "Decrypt"
      [] w = "destroy"    -> "Destroy"    [] w = "encrypt"  -> "Encrypt"
      [] w = "get"        -> "Get"        [] w = "import"   -> "Import"
      [] w = "job"        -> "Job"        [] w = "jobs"     -> "Jobs"
      [] w = "key"        -> "Key"        [] w = "keys"     -> "Keys"
      [] w = "list"       -> "List"       [] w = "primary"  -> "Primary"
      [] w = "public"     -> "Public"     [] w = "restore"  -> "Restore"
      [] w = "ring"       -> "Ring"       [] w = "rings"    -> "Rings"
      [] w = "sign"       -> "Sign"       [] w = "update"   -> "Update"
      [] w = "version"    -> "Version"    [] w = "versions" -> "Versions"

\* the method path of the operation called name:
\* '/google.cloud.kms.v1.KeyManagementService/<MethodName>'
OwnPath(name) ==
    [service |-> "google.cloud.kms.v1.KeyManagementService",
     method  |-> [i \in DOMAIN name |-> Capitalized(name[i])]]

\* the accessors as written: one per operation, each with its own key and path
AccessorsDistinct ==
    /\ AccessorNames = SpecOperations
    /\ Cardinality(AccessorNames) = 23
    /\ \A a \in AccessorNames :
         /\ Accessor(a).key = a
         /\ Accessor(a).path = OwnPath(a)
    /\ \A a, b \in AccessorNames :
         a # b => /\ Accessor(a).path # Accessor(b).path
                  /\ Accessor(a).key # Accessor(b).key

(* C10: there is one accessor for each of the 23 operations; each binds its *)
(* stub to the path of its own method under the service name, no two        *)
(* accessors share a path or a key, and so the binding an accessor returns  *)
(* and every binding in the mapping is bound to its own operation's path.   *)
C10_OwnPath ==
    /\ AccessorsDistinct
    /\ \A name \in DOMAIN done : done[name].last.path = OwnPath(name)
    /\ \A k \in DOMAIN Stubs : Stubs[k].path = OwnPath(k)
    /\ \A k1, k2 \in DOMAIN Stubs : k1 # k2 => Stubs[k1].path # Stubs[k2].path

\* asymmetric_decrypt has returned its binding, the only one in the mapping
C10_Witness ==
    /\ DOMAIN Stubs = {<<"asymmetric", "decrypt">>}
    /\ DOMAIN done = DOMAIN Stubs
    /\ Stubs[<<"asymmetric", "decrypt">>].path.method = <<"Asymmetric", "Decrypt">>

\* thread t is about to return from an accessor
Returning(t) == threads[t].at = "return"

(* C11: when several threads access accessors of one facade, with the test, *)
(* the construction, the store and the return of each call interleaved in   *)
(* any order, the mapping is never corrupted: every entry is a binding to   *)
(* the path of the operation it is stored under, every call returns a       *)
(* binding to the path of its own operation, a call that starts when no     *)
(* other call is in progress and the mapping holds a binding for its        *)
(* operation returns that binding, and when no call is in progress the      *)
(* mapping holds, for each operation that was accessed, the one binding     *)
(* that the last call returned.                                             *)
C11_RaceBenign ==
    /\ \A k \in DOMAIN Stubs :
         /\ Stubs[k].t = "UnaryUnaryMultiCallable"
         /\ Stubs[k].path = OwnPath(k)
    /\ \A name \in DOMAIN done :
         /\ done[name].first.path = OwnPath(name)
         /\ done[name].last.path = OwnPath(name)
    /\ \A t \in DOMAIN threads :
         Returning(t) =>
             /\ threads[t].name \in DOMAIN Stubs
             /\ threads[t].expect # <<>> => Stubs[threads[t].name] = threads[t].expect[1]
    /\ Quiescent =>
         /\ DOMAIN Stubs = DOMAIN done
         /\ DOMAIN Stubs = DOMAIN uuCalls
         /\ \A name \in DOMAIN done : done[name].last = Stubs[name]

\* two threads raced on one accessor, each built a callable and they returned
\* different ones; a later call is about to return the binding that stayed
C11_Witness ==
    \E t \in DOMAIN threads :
        /\ Returning(t)
        /\ threads[t].expect # <<>>
        /\ Invocations(threads[t].name) = 2
        /\ done[threads[t].name].first # done[threads[t].name].last
        /\ Stubs[threads[t].name] = done[threads[t].name].last

(* C12: for a facade constructed with neither a channel nor a mutual-TLS    *)
(* endpoint, however the first accesses of several threads interleave, the  *)
(* channel is created once and all stubs share it: no two stubs in the      *)
(* mapping are bound to different channel objects.                          *)
C12_Original ==
    (~GivenChannel /\ ~GivenMtls) =>
        \A k1, k2 \in DOMAIN Stubs : Stubs[k1].channel = Stubs[k2].channel

(* C13 as stated: when no channel is supplied, with or without a mutual-TLS *)
(* endpoint, the constructor creates no channel: every channel creation is  *)
(* made by a read of grpc_channel, and before the first read no channel is  *)
(* held.                                                                    *)
C13_Original ==
    ~GivenChannel =>
        /\ calls["grpc_helpers.create_channel"] = calls["create_channel"]
        /\ calls["create_channel"] = 0 => "_grpc_channel" \notin DOMAIN self

(* C13 as amended: when neither a channel nor a mutual-TLS endpoint is      *)
(* supplied, the constructor creates no channel; the channel is created by  *)
(* the first read of grpc_channel (directly or through an accessor) whose   *)
(* create_channel call returns, and is then cached: later reads return it   *)
(* and create nothing.  When a mutual-TLS endpoint is supplied without a    *)
(* channel, the constructor itself creates the channel, and no read of      *)
(* grpc_channel ever creates one.                                           *)
C13_Lazy ==
    ~GivenChannel =>
        IF GivenMtls
        THEN /\ calls["create_channel"] = 0
             /\ pc = "ready" =>
                  /\ calls["grpc_helpers.create_channel"] = 1
                  /\ "_grpc_channel" \in DOMAIN self
                  /\ self["_grpc_channel"].from = "grpc_helpers.create_channel"
                  /\ seen \subseteq {self["_grpc_channel"]}
        ELSE /\ calls["grpc_helpers.create_channel"] = calls["create_channel"]
             /\ calls["create_channel"] = 0 =>
                  "_grpc_channel" \notin DOMAIN self /\ seen = {}
             /\ "_grpc_channel" \in DOMAIN self =>
                  /\ self["_grpc_channel"].n = calls["create_channel"]
                  /\ seen = {self["_grpc_channel"]}
             /\ "_grpc_channel" \notin DOMAIN self =>
                  /\ seen = {}
                  /\ calls["create_channel"] <= failures

\* a facade constructed with neither, whose first read of grpc_channel was made
\* by an accessor and created the channel it holds
C13_Witness ==
    /\ ~GivenChannel /\ ~GivenMtls
    /\ pc = "ready"
    /\ calls["create_channel"] = 1
    /\ "_grpc_channel" \in DOMAIN self
    /\ Cardinality(DOMAIN Stubs) = 1
    /\ failures = 0

----------------------------------------------------------------------------
(* C14 *)

\* the callables unary_unary has produced for accessor name on the facade's channel
Produced(name) ==
    IF "_grpc_channel" \in DOMAIN self
    THEN {UnaryUnary(self["_grpc_channel"], AccessorTable[name], n) :
            n \in 1 .. Invocations(name)}
    ELSE {}

\* C14: what an accessor returns is the very object channel.unary_unary
\* produced, with nothing wrapped around it; a call the user makes of it is
\* a call of that object, invokes the remote procedure once, and the caller
\* observes the response or error the procedure produced
C14_PassThrough ==
    /\ \A name \in DOMAIN done :
         /\ done[name].last \in Produced(name)
         /\ done[name].first \in Produced(name)
    /\ rpc.underlying = rpc.user
    /\ \A i \in DOMAIN rpc.last :
         /\ rpc.last[i].callee \in Produced(rpc.last[i].name)
         /\ rpc.last[i].callee = self["_stubs"][rpc.last[i].name]
         /\ rpc.last[i].observed = rpc.last[i].produced

\* the user has called what an accessor returned twice, and the second call
\* raised the error of the remote procedure
C14_Witness ==
    /\ rpc.user = 2
    /\ \E i \in DOMAIN rpc.last :
         /\ rpc.last[i].produced = "RpcError"
         /\ rpc.last[i].callee.t = "UnaryUnaryMultiCallable"

----------------------------------------------------------------------------
(* C15 *)

\* C15: with no api_mtls_endpoint the client_cert_source callback is never
\* called, by the constructor or by any read of grpc_channel or of an
\* accessor after it; and whatever the arguments, it is called at most once
C15_CertSourceOnlyMtls ==
    /\ calls["client_cert_source"] <= 1
    /\ "api_mtls_endpoint" \notin DOMAIN kwargs => calls["client_cert_source"] = 0

\* a callback was given without an endpoint, and the facade has since created
\* its channel and built a stub
C15_Witness ==
    /\ GivenCertSource
    /\ "api_mtls_endpoint" \notin DOMAIN kwargs
    /\ ~GivenChannel
    /\ pc = "ready"
    /\ calls["create_channel"] = 1
    /\ seen # {}
    /\ DOMAIN Stubs # {}

----------------------------------------------------------------------------
(* C16 *)

\* the host the docstring promises for the given endpoint
EndpointHost ==
    IF HasColon(kwargs["api_mtls_endpoint"])
    THEN kwargs["api_mtls_endpoint"]
    ELSE Str(kwargs["api_mtls_endpoint"].s \o <<":", "443">>)

\* the constructor has asked for client SSL credentials, or failed before it
\* came to that
TriedMtls ==
    \/ calls["client_cert_source"] + calls["SslCredentials"] > 0
    \/ "auth.default" \in threw

\* C16: whenever api_mtls_endpoint is given, whatever the other arguments and
\* also when a channel is supplied, the constructor tries to create a
\* mutual-TLS channel, and the host it passes to the base constructor is the
\* one derived from the endpoint
C16_Original ==
    GivenMtls =>
        /\ pc # "new" => TriedMtls
        /\ pc = "ready" => superArgs[1].host = EndpointHost

----------------------------------------------------------------------------
(* C17 *)

\* C17: an error the constructor raises out of the mutual-TLS branch is a
\* MutualTLSChannelError, whichever step failed.  (SslCredentials is left
\* aside: the library documents that it raises that error itself.)
C17_Original ==
    (pc = "raised" /\ errs[OfInit].by # "SslCredentials") =>
        errs[OfInit].t = "MutualTLSChannelError"

----------------------------------------------------------------------------
(* C18 *)

\* how often the constructor has asked for client SSL credentials
SslResolutions == calls["client_cert_source"] + calls["SslCredentials"]

\* C18: in the mutual-TLS branch auth.default is called exactly when no
\* credentials are given; given credentials reach grpc_helpers.create_channel
\* and the base constructor as they are; and the steps run in the order
\* credentials, SSL credentials, channel, base constructor, a step that raises
\* keeping every later step from running
C18_MtlsOrder ==
    (GivenMtls /\ ~GivenChannel /\ pc # "new") =>
        /\ calls["auth.default"] = (IF GivenCredentials THEN 0 ELSE 1)
        /\ SslResolutions <= 1
        /\ calls["grpc_helpers.create_channel"] <= SslResolutions
        /\ calls["super().__init__"] <= calls["grpc_helpers.create_channel"]
        /\ pc = "raised" =>
             /\ calls["super().__init__"] = 0
             /\ superArgs = <<>>
             /\ "_grpc_channel" \notin DOMAIN self
             /\ errs[OfInit].by = "auth.default" => SslResolutions = 0
             /\ errs[OfInit].by \in {"client_cert_source", "SslCredentials"} =>
                  /\ SslResolutions = 1
                  /\ calls["grpc_helpers.create_channel"] = 0
             /\ errs[OfInit].by = "grpc_helpers.create_channel" =>
                  /\ SslResolutions = 1
                  /\ calls["grpc_helpers.create_channel"] = 1
        /\ pc = "ready" =>
             /\ SslResolutions = 1
             /\ calls["grpc_helpers.create_channel"] = 1
             /\ calls["super().__init__"] = 1
             /\ GivenCredentials =>
                  /\ self["_grpc_channel"].credentials = kwargs["credentials"]
                  /\ superArgs[1].credentials = kwargs["credentials"]

\* a mutual-TLS construction without credentials whose callback raised, after
\* the default credentials had been looked up
C18_Witness ==
    /\ GivenMtls
    /\ ~GivenChannel
    /\ ~GivenCredentials
    /\ pc = "raised"
    /\ errs[OfInit].by = "client_cert_source"
    /\ calls["auth.default"] = 1

----------------------------------------------------------------------------
(* C19 *)

\* C19: in the mutual-TLS branch the channel is created for, and the base
\* constructor is given, the endpoint itself when it contains ":" and the
\* endpoint followed by ":443" when it does not, whatever host was passed
C19_MtlsHost ==
    (GivenMtls /\ ~GivenChannel /\ pc = "ready") =>
        /\ self["_grpc_channel"].host = EndpointHost
        /\ superArgs[1].host = EndpointHost

\* a mutual-TLS construction with a host argument and an endpoint that names
\* its port, whose channel has since been used by an accessor
C19_Witness ==
    /\ GivenMtls
    /\ ~GivenChannel
    /\ GivenHost
    /\ HasColon(kwargs["api_mtls_endpoint"])
    /\ pc = "ready"
    /\ superArgs[1].host = kwargs["api_mtls_endpoint"]
    /\ superArgs[1].host # kwargs["host"]
    /\ DOMAIN Stubs # {}

----------------------------------------------------------------------------
(* C20 *)

\* an access to accessor name while the mapping has no entry for it: it
\* attempts the construction; if create_channel or unary_unary raises, the
\* caller gets that error, nothing is returned, the mapping is as before and
\* a channel whose creation failed is not bound; otherwise the entry is there
FirstAccessStep(name) ==
    (pc = "ready" /\ name \notin DOMAIN Stubs /\ Access(name)) =>
        /\ \/ calls'["create_channel"] > calls["create_channel"]
           \/ uuCalls'[name] > Invocations(name)
        /\ failures' # failures =>
             /\ name \in DOMAIN errs'
             /\ errs'[name].by \in {"grpc_helpers.create_channel", "unary_unary"}
             /\ done' = done
             /\ self'["_stubs"] = self["_stubs"]
             /\ errs'[name].by = "grpc_helpers.create_channel" =>
                  "_grpc_channel" \notin DOMAIN self'
        /\ failures' = failures => name \in DOMAIN self'["_stubs"]

\* C20: a first access that fails caches nothing and can be tried again: the
\* error of create_channel or unary_unary reaches the caller, the mapping gets
\* no entry, a failed creation leaves _grpc_channel unset, and the next access
\* to the accessor attempts the construction anew
C20_FailedAccessRetryable ==
    [][\A name \in AccessorNames : FirstAccessStep(name)]_vars

\* an accessor whose first access failed in create_channel and whose second
\* access created the channel and returned the stub
C20_Witness ==
    \E name \in DOMAIN errs \cap DOMAIN done :
        /\ errs[name].by = "grpc_helpers.create_channel"
        /\ calls["create_channel"] = 2
        /\ Invocations(name) = 1
        /\ name \in DOMAIN Stubs

----------------------------------------------------------------------------
(* C21 *)

\* a step of the constructed facade keeps what it holds: every entry of the
\* mapping stays as it is, and so do the channel once bound, the host and the
\* credentials
KeepsCached ==
    pc = "ready" =>
        /\ \A k \in DOMAIN self["_stubs"] :
             k \in DOMAIN self'["_stubs"] /\ self'["_stubs"][k] = self["_stubs"][k]
        /\ "_grpc_channel" \in DOMAIN self =>
             /\ "_grpc_channel" \in DOMAIN self'
             /\ self'["_grpc_channel"] = self["_grpc_channel"]
        /\ self'["_host"] = self["_host"]
        /\ self'["_credentials"] = self["_credentials"]

\* an access to accessor name adds no entry but its own
AddsOwnEntryOnly(name) ==
    (pc = "ready" /\ Access(name)) =>
        DOMAIN self'["_stubs"] \subseteq DOMAIN self["_stubs"] \cup {Accessor(name).key}

\* C21: on one thread the mapping only grows and the accessors leave each
\* other alone: an access adds at most the entry of its own operation, and no
\* step removes or replaces an entry, rebinds the channel once it is set, or
\* changes the host or the credentials
C21_NoEviction ==
    [][KeepsCached /\ \A name \in AccessorNames : AddsOwnEntryOnly(name)]_vars

\* two accessors have been accessed one after the other, and the mapping
\* holds for each the callable its first access returned
C21_Witness ==
    /\ pc = "ready"
    /\ Cardinality(DOMAIN Stubs) = 2
    /\ \A k \in DOMAIN Stubs : k \in DOMAIN done /\ done[k].first = Stubs[k]
    /\ "_grpc_channel" \in DOMAIN self

----------------------------------------------------------------------------
(* C22 *)

\* the script has come to its end, by returning or by an exception
ScriptEnded == script.at \in {"done", "raised"}

\* the output ends with the listing: the header and the names, or the notice
\* that there are none
PrintedListing ==
    /\ script.response_list # <<>>
    /\ LET r == script.response_list[1]
           n == Len(script.out)
       IN  IF Len(r) = 0
           THEN n >= 1 /\ script.out[n] = "No key rings found."
           ELSE /\ n >= Len(r) + 1
                /\ script.out[n - Len(r)] = "Key rings:"
                /\ \A j \in 1 .. Len(r) : script.out[n - Len(r) + j] = r[j]

\* C22: every run of sample.py's list_key_rings in which the library calls
\* return chooses the callback (the default source if there is one, None
\* otherwise), constructs the client, calls the client's list_key_rings
\* exactly once, and then prints the key rings or that there are none
C22_Original ==
    (script.name = "sample" /\ ScriptEnded /\ script.exc # "LibraryError") =>
        /\ script.callback # <<>>
        /\ script.client # <<>>
        /\ script.listed = 1
        /\ script.at = "done"
        /\ PrintedListing

====
